---- MODULE Spec2Model ----
(***************************************************************************)
(* Model of the monitoring agent (src/agent/agent.py).                     *)
(*                                                                         *)
(*   SpecCheck  one call of ServiceHealthChecker.check_service on an       *)
(*              arbitrary configuration and arbitrary probe outcomes       *)
(*   SpecBatch  ServiceHealthChecker.check_all_services as called by       *)
(*              get_service_status                                         *)
(*   Spec       the broadcast loop, the storage emit and the two           *)
(*              config_update handlers                                     *)
(*   SpecUpdate one config_update event at a time, met in any state of the *)
(*              intervals and counters                                     *)
(*   SpecConn   start_background_tasks, connect_to_server, the             *)
(*              registration loop and the broadcast loop they start;       *)
(*              SpecConnFair adds the event loop's fairness                *)
(*                                                                         *)
(* Python's None is the string "None"; a three-valued probe result is one  *)
(* of "True", "False", "None".  The human-readable message of a probe is   *)
(* not modelled (it is the empty text); the text of a caught exception is  *)
(* a sequence of characters.                                               *)
(***************************************************************************)
EXTENDS Integers, Sequences, FiniteSets, TLC

VARIABLES
    \* ---- SpecCheck: one call of check_service
    arg_name,            \* service_name argument
    arg_config,          \* config argument
    probe_env,           \* what each probe would observe on this host
    verdict,             \* the returned {state, checks}, or NotCalled
    \* ---- SpecBatch: check_all_services
    service_configs,     \* self.service_configs, in dict order
    batch_env,           \* per evaluated service: the outcomes it met
    results,             \* the results dict being built
    batch_pos,           \* number of services the for loop has handled
    \* ---- Spec: module globals of the agent and the broadcast loop
    BROADCAST_INTERVAL,
    STORAGE_INTERVAL,
    broadcast_counter,
    storage_counter,
    server_connected,
    storage_cycles,      \* local of metric_broadcast_loop
    loop_pc,             \* where metric_broadcast_loop is suspended
    \* ---- Spec: observations of the run (history)
    tick_result,         \* how the tick in progress / just ended went
    tick_seen,           \* broadcast_counter as read by the storage test of that tick
    tick_storage,        \* whether that tick called send_to_server_for_storage
    failed,              \* some tick ended in the except branch
    ticks_since_update,  \* ticks started since the last accepted config_update (2: two or more)
    last_from,           \* STORAGE_INTERVAL before the last accepted config_update (0: none yet)
    tick_fanout,         \* calls of sio.emit('metrics:update') made by that tick
    tick_emit,           \* what send_to_server_for_storage did in that tick
    \* ---- SpecUpdate: one config_update event at a time
    delivered,           \* the event last handled and the globals it found, or NoEvent
    \* ---- SpecConn: startup, connect_to_server and the registration loop
    boot_pc,             \* where start_background_tasks is suspended
    conn_pc,             \* where the running connect_to_server is suspended ("idle": none runs)
    attempt,             \* loop variable of connect_to_server
    reg_pc,              \* where registration_loop is suspended
    server_up,           \* environment: server_sio.connect would succeed now
    seq_attempts,        \* calls of server_sio.connect made by the current / last sequence
    seq_outcome,         \* how the current / last connect_to_server went
    boot_outcome,        \* how the connect_to_server called at startup ended
    iter_found,          \* server_connected as the last registration iteration met it
    iter_post,           \* how address resolution and the POST of that iteration went
    iter_started,        \* connect_to_server calls made by that iteration
    running              \* connect_to_server coroutines in progress

health_vars == <<arg_name, arg_config, probe_env, verdict>>
batch_vars  == <<service_configs, batch_env, results, batch_pos>>
sched_vars  == <<BROADCAST_INTERVAL, STORAGE_INTERVAL, broadcast_counter, storage_counter,
                 server_connected, storage_cycles, loop_pc>>
hist_vars   == <<tick_result, tick_seen, tick_storage, failed, ticks_since_update, last_from,
                 tick_fanout, tick_emit>>
conn_vars   == <<boot_pc, conn_pc, attempt, reg_pc, server_up, seq_attempts, seq_outcome,
                 boot_outcome, iter_found, iter_post, iter_started, running>>
vars == <<health_vars, batch_vars, sched_vars, hist_vars, delivered, conn_vars>>

(***************************************************************************)
(* ServiceHealthChecker                                                    *)
(***************************************************************************)
HEALTHY  == "healthy"
DEGRADED == "degraded"
DOWN     == "down"
UNKNOWN  == "unknown"

Tri == {"True", "False", "None"}

\* Keys of a probe configuration that select a functional probe.
ConfigFields == {"url", "port", "socket_path", "command"}
\* Values of config['check_type']; Absent is a config without the key.
Absent == "absent"
CheckTypes == {"http", "tcp", "socket", "command", "auto", "other", Absent}
Configs == [check_type : CheckTypes, keys : SUBSET ConfigFields]

\* Service names of the model; NodeJS exercises service_name.lower().
Names == {"nginx", "custom", "node", "NodeJS"}
NodeNames == {"node", "nodejs"}

Lower(s) == CASE s = "NodeJS" -> "nodejs" [] OTHER -> s

\* What the host answers to each probe of one evaluation.
Envs == [fn : BOOLEAN, systemd : Tri, pm2 : Tri, nodeproc : Tri, process : BOOLEAN]

Entry(passed) == [passed |-> passed, message |-> <<>>]
NoChecks == [k \in {} |-> Entry(FALSE)]
FunctionalChecks == {"http", "tcp_port", "unix_socket", "command"}

\* The probes: each fails closed, so its result is a boolean (or a Tri).
check_http(config, env) == env.fn
check_tcp_port(config, env) == IF "port" \notin config.keys THEN FALSE ELSE env.fn
check_unix_socket(config, env) == IF "socket_path" \notin config.keys THEN FALSE ELSE env.fn
check_command(config, env) == IF "command" \notin config.keys THEN FALSE ELSE env.fn
check_systemd(env) == env.systemd
check_pm2(env) == env.pm2
check_nodejs_processes(env) == env.nodeproc
check_process(env) == env.process

\* A mutant of FunctionalKind: in auto mode port is looked for before url.
FunctionalKindPortFirst(config) ==
    LET check_type == IF config.check_type = Absent THEN "auto" ELSE config.check_type
    IN  IF check_type = "tcp" \/ (check_type = "auto" /\ "port" \in config.keys)
          THEN "tcp_port"
        ELSE IF check_type = "http" \/ (check_type = "auto" /\ "url" \in config.keys)
          THEN "http"
        ELSE IF check_type = "socket" \/ (check_type = "auto" /\ "socket_path" \in config.keys)
          THEN "unix_socket"
        ELSE IF check_type = "command" \/ (check_type = "auto" /\ "command" \in config.keys)
          THEN "command"
        ELSE "none"

\* The if/elif chain of check_service: the check it records, or "none".
FunctionalKind(config) ==
    LET check_type == IF config.check_type = Absent THEN "auto" ELSE config.check_type
    IN  IF check_type = "http" \/ (check_type = "auto" /\ "url" \in config.keys)
          THEN "http"
        ELSE IF check_type = "tcp" \/ (check_type = "auto" /\ "port" \in config.keys)
          THEN "tcp_port"
        ELSE IF check_type = "socket" \/ (check_type = "auto" /\ "socket_path" \in config.keys)
          THEN "unix_socket"
        ELSE IF check_type = "command" \/ (check_type = "auto" /\ "command" \in config.keys)
          THEN "command"
        ELSE "none"

FunctionalResult(kind, config, env) ==
    CASE kind = "http"        -> check_http(config, env)
      [] kind = "tcp_port"    -> check_tcp_port(config, env)
      [] kind = "unix_socket" -> check_unix_socket(config, env)
      [] kind = "command"     -> check_command(config, env)
      [] OTHER                -> FALSE

Passed(checks, k) == k \in DOMAIN checks /\ checks[k].passed
Failed(checks, k) == k \in DOMAIN checks /\ ~checks[k].passed

\* A mutant of ProcessCheckRuns: the 'not checks' test inverted.
ProcessCheckRunsInverted(checks, functional_passed, systemd_passed) ==
    ~functional_passed
      /\ (DOMAIN checks # {} /\ (systemd_passed = "None" \/ systemd_passed = "False"))

\* The guard of the process-table fallback.
ProcessCheckRuns(checks, functional_passed, systemd_passed) ==
    ~functional_passed
      /\ (DOMAIN checks = {} \/ systemd_passed = "None" \/ systemd_passed = "False")

\* A mutant of _determine_state: a failing supervisor outranks the functional probe.
determine_state_supervisor_first(checks, functional_passed, systemd_passed) ==
    IF DOMAIN checks = {} THEN UNKNOWN
    ELSE IF systemd_passed = "False" THEN DOWN
    ELSE IF functional_passed THEN HEALTHY
    ELSE IF FunctionalChecks \cap DOMAIN checks # {}
      THEN IF systemd_passed = "True" \/ Passed(checks, "process") THEN DEGRADED ELSE DOWN
    ELSE IF systemd_passed = "True" \/ Passed(checks, "process") THEN HEALTHY
    ELSE IF systemd_passed = "False" \/ Failed(checks, "process") THEN DOWN
    ELSE UNKNOWN

\* A mutant of _determine_state: the process-table fallback is ignored when
\* the functional probe failed.
determine_state_no_fallback(checks, functional_passed, systemd_passed) ==
    IF DOMAIN checks = {} THEN UNKNOWN
    ELSE IF functional_passed THEN HEALTHY
    ELSE IF FunctionalChecks \cap DOMAIN checks # {}
      THEN IF systemd_passed = "True" THEN DEGRADED ELSE DOWN
    ELSE IF systemd_passed = "True" \/ Passed(checks, "process") THEN HEALTHY
    ELSE IF systemd_passed = "False" \/ Failed(checks, "process") THEN DOWN
    ELSE UNKNOWN

_determine_state(checks, functional_passed, systemd_passed) ==
    IF DOMAIN checks = {} THEN UNKNOWN
    ELSE IF functional_passed THEN HEALTHY
    ELSE IF FunctionalChecks \cap DOMAIN checks # {}
      THEN IF systemd_passed = "True" \/ Passed(checks, "process") THEN DEGRADED ELSE DOWN
    ELSE IF systemd_passed = "True" \/ Passed(checks, "process") THEN HEALTHY
    ELSE IF systemd_passed = "False" \/ Failed(checks, "process") THEN DOWN
    ELSE UNKNOWN

check_service(service_name, config, env) ==
    LET \* 1. functional / protocol check
        kind == FunctionalKind(config)
        passed == FunctionalResult(kind, config, env)
        checks1 == IF kind = "none" THEN NoChecks ELSE (kind :> Entry(passed))
        functional1 == kind # "none" /\ passed
        \* 2. systemd
        systemd_passed == check_systemd(env)
        checks2 == IF systemd_passed # "None"
                     THEN checks1 @@ ("systemd" :> Entry(systemd_passed = "True"))
                     ELSE checks1
        \* 3. Node.js services
        is_node == Lower(service_name) \in NodeNames
        pm2_passed == check_pm2(env)
        checks3 == IF is_node /\ pm2_passed # "None"
                     THEN checks2 @@ ("pm2" :> Entry(pm2_passed = "True"))
                     ELSE checks2
        node_proc_passed == check_nodejs_processes(env)
        checks4 == IF is_node /\ node_proc_passed # "None"
                     THEN checks3 @@ ("nodejs_processes" :> Entry(node_proc_passed = "True"))
                     ELSE checks3
        functional_passed ==
            functional1 \/ (is_node /\ (pm2_passed = "True" \/ node_proc_passed = "True"))
        \* 4. process check
        checks5 == IF ProcessCheckRuns(checks4, functional_passed, systemd_passed)
                     THEN checks4 @@ ("process" :> Entry(check_process(env)))
                     ELSE checks4
    IN  [state |-> _determine_state(checks5, functional_passed, systemd_passed),
         checks |-> checks5]

NotCalled == [state |-> "none", checks |-> NoChecks]

InitCheck ==
    /\ arg_name \in Names
    /\ arg_config \in Configs
    /\ probe_env \in Envs
    /\ verdict = NotCalled

CheckService ==
    /\ verdict = NotCalled
    /\ verdict' = check_service(arg_name, arg_config, probe_env)
    /\ UNCHANGED <<arg_name, arg_config, probe_env>>


(***************************************************************************)
(* check_all_services, called by get_service_status                        *)
(***************************************************************************)
\* Longest services_to_monitor list of the model.
MaxServices == 2
\* str(e)[:100]
MsgLimit == 100

\* Names that services_to_monitor draws from: three with a default
\* configuration and one without.
MonitorNames == {"nginx", "postgresql", "node", "custom"}

_get_default_service_config(service_name) ==
    CASE service_name \in {"nginx", "apache2", "elasticsearch"}
           -> [check_type |-> "http", keys |-> {"url"}]
      [] service_name \in {"mysql", "mariadb", "redis", "redis-server"}
           -> [check_type |-> "command", keys |-> {"command"}]
      [] service_name \in {"postgresql", "mongodb", "ssh", "sshd"}
           -> [check_type |-> "tcp", keys |-> {"port"}]
      [] service_name \in {"php-fpm", "docker"}
           -> [check_type |-> "socket", keys |-> {"socket_path"}]
      [] service_name \in {"node", "nodejs"}
           -> [check_type |-> "auto", keys |-> {}]
      [] OTHER
           -> [check_type |-> "auto", keys |-> {}]

\* The text of an exception: n characters.
Text(n) == [i \in 1..n |-> "e"]
ErrTexts == {Text(n) : n \in {0, 1, MsgLimit, MsgLimit + 1}}

Min(a, b) == IF a < b THEN a ELSE b
\* s[:n]
Truncate(s, n) == SubSeq(s, 1, Min(Len(s), n))

QuietEnv == [fn |-> FALSE, systemd |-> "None", pm2 |-> "None",
             nodeproc |-> "None", process |-> FALSE]

\* What evaluating one service can meet: probe outcomes (of the probes that
\* check_service consults for it), or an exception with some text.
Outcomes(service_name, config) ==
    {[raises |-> FALSE, text |-> <<>>, env |-> e] :
        e \in {x \in Envs :
                 /\ (Lower(service_name) \notin NodeNames
                       => (x.pm2 = "None" /\ x.nodeproc = "None"))
                 /\ (FunctionalKind(config) = "none" => ~x.fn)}}
      \cup {[raises |-> TRUE, text |-> t, env |-> QuietEnv] : t \in ErrTexts}

ErrorVerdict(text) ==
    [state |-> UNKNOWN,
     checks |-> ("error" :> [passed |-> FALSE, message |-> Truncate(text, MsgLimit)])]

\* results[name] = v
Store(res, name, v) == [n \in DOMAIN res \cup {name} |-> IF n = name THEN v ELSE res[n]]

\* A mutant of AfterService: the except branch records nothing.
AfterServiceDropsError(res, service_name, config, o) ==
    IF o.raises
      THEN res
      ELSE Store(res, service_name, check_service(service_name, config, o.env))

\* One iteration of the for loop: the try and its except branch.
AfterService(res, service_name, config, o) ==
    IF o.raises
      THEN Store(res, service_name, ErrorVerdict(o.text))
      ELSE Store(res, service_name, check_service(service_name, config, o.env))

NoResults == [n \in {} |-> NotCalled]

\* Lists of distinct names, at most MaxServices long.
MonitorLists ==
    {l \in UNION {[1..n -> MonitorNames] : n \in 0..MaxServices} :
        \A i, j \in DOMAIN l : i # j => l[i] # l[j]}

\* get_service_status: the checker is built over the default configurations.
InitBatch ==
    /\ \E SERVICES_MONITOR \in MonitorLists :
          service_configs = [i \in DOMAIN SERVICES_MONITOR |->
                                [name |-> SERVICES_MONITOR[i],
                                 config |-> _get_default_service_config(SERVICES_MONITOR[i])]]
    /\ batch_env = <<>>
    /\ results = NoResults
    /\ batch_pos = 0

check_all_services ==
    /\ batch_pos < Len(service_configs)
    /\ LET item == service_configs[batch_pos + 1]
       IN  \E o \in Outcomes(item.name, item.config) :
              /\ results' = AfterService(results, item.name, item.config, o)
              /\ batch_env' = Append(batch_env, o)
    /\ batch_pos' = batch_pos + 1
    /\ UNCHANGED service_configs

(***************************************************************************)
(* metric_broadcast_loop, send_to_server_for_storage and the handlers      *)
(*                                                                         *)
(* The loops and handlers are coroutines of one event loop: the code       *)
(* between two awaits runs without interleaving, so an action is the code  *)
(* from one await to the next.  loop_pc is the await at which the          *)
(* broadcast loop is suspended:                                            *)
(*   "start"    the task is scheduled and has not run yet                  *)
(*   "fanout"   await sio.emit('metrics:update', data)                     *)
(*   "storage"  await server_sio.emit('agent:metrics', data)               *)
(*   "sleep"    await asyncio.sleep(BROADCAST_INTERVAL)                    *)
(* Intervals are positive integers in one common unit.                     *)
(***************************************************************************)
\* The loop is followed until broadcast_counter reaches MaxTicks.
MaxTicks == 20

BroadcastIntervals == {1, 2, 3}
StorageIntervals == {1, 2, 3, 5}
\* A config_update payload without the key.
NoKey == 0

\* A mutant of StorageCycles: the ratio rounded up.
StorageCyclesCeil(storage, broadcast) == (storage + broadcast - 1) \div broadcast

\* int(STORAGE_INTERVAL / BROADCAST_INTERVAL), for positive intervals.
StorageCycles(storage, broadcast) == storage \div broadcast

\* A mutant of IsStorageTick: the counter tested after its increment.
IsStorageTickOffByOne(counter, cycles) == (counter + 1) % cycles = 0

\* broadcast_counter % storage_cycles == 0, for storage_cycles > 0.
IsStorageTick(counter, cycles) == counter % cycles = 0

\* A mutant of Publishes: the snapshot is published only while the storage
\* session is connected.
PublishesWhenConnected(connected) == connected

\* The condition under which a tick calls sio.emit('metrics:update', data) once
\* its snapshot is assembled: none.
Publishes(connected) == TRUE

\* A mutant of SendSkipped: the emit is tried whatever the session state.
SendSkippedNever(connected) == FALSE

\* send_to_server_for_storage returns at once: 'if not server_connected'.
SendSkipped(connected) == ~connected

\* A mutant of AfterTickError: the exception leaves the loop.
AfterTickErrorStops == "stopped"

\* Where the loop goes from its except branch: to the sleep that ends the tick.
AfterTickError == "sleep"

InitSched ==
    /\ BROADCAST_INTERVAL \in BroadcastIntervals
    /\ STORAGE_INTERVAL \in StorageIntervals
    /\ broadcast_counter = 0
    /\ storage_counter = 0
    /\ server_connected \in BOOLEAN    \* as connect_to_server left it at startup
    /\ storage_cycles = 0
    /\ loop_pc = "start"
    /\ tick_result = "none"
    /\ tick_seen = 0
    /\ tick_storage = "none"
    /\ failed = FALSE
    /\ ticks_since_update = 0
    /\ last_from = 0
    /\ tick_fanout = 0
    /\ tick_emit = "none"

\* The loop body from 'try:' to its first await: collect_metrics() returns or
\* raises (the except branch leads to the sleep).
BeginTick ==
    /\ tick_seen' = broadcast_counter
    /\ tick_storage' = "none"
    /\ ticks_since_update' = IF ticks_since_update < 2 THEN ticks_since_update + 1 ELSE 2
    /\ tick_emit' = "none"
    /\ \/ /\ loop_pc' = "fanout"
          /\ tick_result' = "running"
          /\ tick_fanout' = IF Publishes(server_connected) THEN 1 ELSE 0
          /\ UNCHANGED failed
       \/ /\ loop_pc' = AfterTickError
          /\ tick_result' = "collect_error"
          /\ tick_fanout' = 0
          /\ failed' = TRUE
    /\ UNCHANGED <<BROADCAST_INTERVAL, STORAGE_INTERVAL, broadcast_counter, storage_counter,
                   server_connected, last_from>>

\* The task starts: storage_cycles is computed once, then the first tick begins.
LoopStart ==
    /\ loop_pc = "start"
    /\ storage_cycles' = StorageCycles(STORAGE_INTERVAL, BROADCAST_INTERVAL)
    /\ BeginTick

\* asyncio.sleep returns and the next tick begins.
Wake ==
    /\ loop_pc = "sleep"
    /\ broadcast_counter < MaxTicks
    /\ UNCHANGED storage_cycles
    /\ BeginTick

\* A mutant of FanoutReturns: a publish that raised does not end the tick.
FanoutReturnsStoresAfterError ==
    /\ loop_pc = "fanout"
    /\ \/ \* sio.emit raised, the error is swallowed and the snapshot is stored
          /\ loop_pc' = "sleep"
          /\ tick_result' = "publish_error"
          /\ failed' = TRUE
          /\ tick_seen' = broadcast_counter
          /\ tick_storage' = "attempted"
          /\ tick_emit' = "not_sent"
          /\ storage_counter' = storage_counter + 1
          /\ broadcast_counter' = broadcast_counter + 1
       \/ \* broadcast_counter % 0
          /\ storage_cycles = 0
          /\ loop_pc' = AfterTickError
          /\ tick_result' = "ZeroDivisionError"
          /\ failed' = TRUE
          /\ tick_seen' = broadcast_counter
          /\ UNCHANGED <<broadcast_counter, storage_counter, tick_storage, tick_emit>>
       \/ \* storage tick, session not connected: the emit is skipped
          /\ storage_cycles # 0
          /\ IsStorageTick(broadcast_counter, storage_cycles)
          /\ SendSkipped(server_connected)
          /\ loop_pc' = "sleep"
          /\ tick_result' = "ok"
          /\ tick_seen' = broadcast_counter
          /\ tick_storage' = "attempted"
          /\ tick_emit' = "not_sent"
          /\ storage_counter' = storage_counter + 1
          /\ broadcast_counter' = broadcast_counter + 1
          /\ UNCHANGED failed
       \/ \* storage tick, session connected: suspended in server_sio.emit
          /\ storage_cycles # 0
          /\ IsStorageTick(broadcast_counter, storage_cycles)
          /\ ~SendSkipped(server_connected)
          /\ loop_pc' = "storage"
          /\ tick_seen' = broadcast_counter
          /\ tick_storage' = "attempted"
          /\ tick_emit' = "sent"
          /\ UNCHANGED <<broadcast_counter, storage_counter, tick_result, failed>>
       \/ \* not a storage tick
          /\ storage_cycles # 0
          /\ ~IsStorageTick(broadcast_counter, storage_cycles)
          /\ loop_pc' = "sleep"
          /\ tick_result' = "ok"
          /\ tick_seen' = broadcast_counter
          /\ tick_storage' = "skipped"
          /\ broadcast_counter' = broadcast_counter + 1
          /\ UNCHANGED <<storage_counter, failed, tick_emit>>
    /\ UNCHANGED <<BROADCAST_INTERVAL, STORAGE_INTERVAL, server_connected, storage_cycles,
                   ticks_since_update, last_from, tick_fanout>>

\* sio.emit returns or raises; on return the loop runs up to its next await:
\* the storage test, send_to_server_for_storage up to its own await (none when
\* disconnected), the counters.
FanoutReturns ==
    /\ loop_pc = "fanout"
    /\ \/ \* sio.emit raised
          /\ loop_pc' = AfterTickError
          /\ tick_result' = "publish_error"
          /\ failed' = TRUE
          /\ UNCHANGED <<broadcast_counter, storage_counter, tick_seen, tick_storage, tick_emit>>
       \/ \* broadcast_counter % 0
          /\ storage_cycles = 0
          /\ loop_pc' = AfterTickError
          /\ tick_result' = "ZeroDivisionError"
          /\ failed' = TRUE
          /\ tick_seen' = broadcast_counter
          /\ UNCHANGED <<broadcast_counter, storage_counter, tick_storage, tick_emit>>
       \/ \* storage tick, session not connected: the emit is skipped
          /\ storage_cycles # 0
          /\ IsStorageTick(broadcast_counter, storage_cycles)
          /\ SendSkipped(server_connected)
          /\ loop_pc' = "sleep"
          /\ tick_result' = "ok"
          /\ tick_seen' = broadcast_counter
          /\ tick_storage' = "attempted"
          /\ tick_emit' = "not_sent"
          /\ storage_counter' = storage_counter + 1
          /\ broadcast_counter' = broadcast_counter + 1
          /\ UNCHANGED failed
       \/ \* storage tick, session connected: suspended in server_sio.emit
          /\ storage_cycles # 0
          /\ IsStorageTick(broadcast_counter, storage_cycles)
          /\ ~SendSkipped(server_connected)
          /\ loop_pc' = "storage"
          /\ tick_seen' = broadcast_counter
          /\ tick_storage' = "attempted"
          /\ tick_emit' = "sent"
          /\ UNCHANGED <<broadcast_counter, storage_counter, tick_result, failed>>
       \/ \* not a storage tick
          /\ storage_cycles # 0
          /\ ~IsStorageTick(broadcast_counter, storage_cycles)
          /\ loop_pc' = "sleep"
          /\ tick_result' = "ok"
          /\ tick_seen' = broadcast_counter
          /\ tick_storage' = "skipped"
          /\ broadcast_counter' = broadcast_counter + 1
          /\ UNCHANGED <<storage_counter, failed, tick_emit>>
    /\ UNCHANGED <<BROADCAST_INTERVAL, STORAGE_INTERVAL, server_connected, storage_cycles,
                   ticks_since_update, last_from, tick_fanout>>

\* A mutant of StorageReturns: send_to_server_for_storage does not catch the
\* error of server_sio.emit, which ends the tick in the loop's except branch.
StorageReturnsPropagates ==
    /\ loop_pc = "storage"
    /\ \/ /\ storage_counter' = storage_counter + 1
          /\ broadcast_counter' = broadcast_counter + 1
          /\ tick_result' = "ok"
          /\ UNCHANGED <<tick_emit, failed>>
       \/ /\ tick_emit' = "raised"
          /\ tick_result' = "storage_error"
          /\ failed' = TRUE
          /\ UNCHANGED <<storage_counter, broadcast_counter>>
    /\ loop_pc' = "sleep"
    /\ UNCHANGED <<BROADCAST_INTERVAL, STORAGE_INTERVAL, server_connected, storage_cycles,
                   tick_seen, tick_storage, ticks_since_update, last_from, tick_fanout>>

\* server_sio.emit returns or raises inside send_to_server_for_storage, which
\* catches the error; the loop then increments both counters and sleeps.
StorageReturns ==
    /\ loop_pc = "storage"
    /\ \/ UNCHANGED <<server_connected, tick_emit>>
       \/ /\ server_connected' = FALSE
          /\ tick_emit' = "raised"
    /\ storage_counter' = storage_counter + 1
    /\ broadcast_counter' = broadcast_counter + 1
    /\ loop_pc' = "sleep"
    /\ tick_result' = "ok"
    /\ UNCHANGED <<BROADCAST_INTERVAL, STORAGE_INTERVAL, storage_cycles, tick_seen,
                   tick_storage, failed, ticks_since_update, last_from, tick_fanout>>

\* A mutant of ApplyConfigUpdate: the vmId of the payload is not compared.
ApplyConfigUpdateAnyNode(vmIdMatches, broadcastInterval, storageInterval) ==
    /\ BROADCAST_INTERVAL' =
          IF broadcastInterval # NoKey THEN broadcastInterval ELSE BROADCAST_INTERVAL
    /\ STORAGE_INTERVAL' =
          IF storageInterval # NoKey THEN storageInterval ELSE STORAGE_INTERVAL
    /\ broadcast_counter' = 0
    /\ storage_counter' = 0
    /\ ticks_since_update' = 0
    /\ last_from' = STORAGE_INTERVAL
    /\ UNCHANGED <<server_connected, storage_cycles, loop_pc, tick_result, tick_seen,
                   tick_storage, failed, tick_fanout, tick_emit>>

\* The body shared by the two config_update handlers.
ApplyConfigUpdate(vmIdMatches, broadcastInterval, storageInterval) ==
    IF vmIdMatches
      THEN /\ BROADCAST_INTERVAL' =
                 IF broadcastInterval # NoKey THEN broadcastInterval ELSE BROADCAST_INTERVAL
           /\ STORAGE_INTERVAL' =
                 IF storageInterval # NoKey THEN storageInterval ELSE STORAGE_INTERVAL
           /\ broadcast_counter' = 0
           /\ storage_counter' = 0
           /\ ticks_since_update' = 0
           /\ last_from' = STORAGE_INTERVAL
           /\ UNCHANGED <<server_connected, storage_cycles, loop_pc, tick_result, tick_seen,
                          tick_storage, failed, tick_fanout, tick_emit>>
      ELSE UNCHANGED <<sched_vars, hist_vars>>

\* The payloads of a config_update event: for another node, or for this one
\* with each key present or not.
UpdatePayloads ==
    {[vmIdMatches |-> FALSE, broadcastInterval |-> b, storageInterval |-> NoKey] :
        b \in {NoKey, 1}}
      \cup {[vmIdMatches |-> TRUE, broadcastInterval |-> b, storageInterval |-> st] :
              b \in BroadcastIntervals \cup {NoKey}, st \in StorageIntervals \cup {NoKey}}

\* config_update received from a dashboard client (sio).
config_update ==
    \E data \in UpdatePayloads :
        ApplyConfigUpdate(data.vmIdMatches, data.broadcastInterval, data.storageInterval)

\* config_update received from the server over the storage connection (server_sio).
server_config_update ==
    \E data \in UpdatePayloads :
        ApplyConfigUpdate(data.vmIdMatches, data.broadcastInterval, data.storageInterval)

\* No config_update event was handled yet.
NoEvent == [channel |-> "none"]

\* The module globals a config_update handler assigns.
Globals == <<BROADCAST_INTERVAL, STORAGE_INTERVAL, broadcast_counter, storage_counter>>

\* One config_update event handled on a channel ("sio": a dashboard client,
\* "server_sio": the storage connection), the payload and the globals the
\* handler found kept for inspection.
HandleConfigUpdate(channel) ==
    \E data \in UpdatePayloads :
        /\ delivered' = [channel |-> channel, data |-> data, found |-> Globals]
        /\ ApplyConfigUpdate(data.vmIdMatches, data.broadcastInterval, data.storageInterval)

\* The storage client's connect / disconnect / connect_error handlers.
connect ==
    /\ server_connected' = TRUE
    /\ UNCHANGED <<BROADCAST_INTERVAL, STORAGE_INTERVAL, broadcast_counter, storage_counter,
                   storage_cycles, loop_pc, hist_vars>>

disconnect ==
    /\ server_connected' = FALSE
    /\ UNCHANGED <<BROADCAST_INTERVAL, STORAGE_INTERVAL, broadcast_counter, storage_counter,
                   storage_cycles, loop_pc, hist_vars>>

connect_error ==
    /\ server_connected' = FALSE
    /\ UNCHANGED <<BROADCAST_INTERVAL, STORAGE_INTERVAL, broadcast_counter, storage_counter,
                   storage_cycles, loop_pc, hist_vars>>

(***************************************************************************)
(* The parts of the state a specification does not exercise stay idle.     *)
(***************************************************************************)
HealthIdle ==
    /\ arg_name = "nginx"
    /\ arg_config = [check_type |-> Absent, keys |-> {}]
    /\ probe_env = [fn |-> FALSE, systemd |-> "None", pm2 |-> "None",
                    nodeproc |-> "None", process |-> FALSE]
    /\ verdict = NotCalled

BatchIdle ==
    /\ service_configs = <<>>
    /\ batch_env = <<>>
    /\ results = NoResults
    /\ batch_pos = 0

SchedIdle ==
    /\ BROADCAST_INTERVAL = 1
    /\ STORAGE_INTERVAL = 1
    /\ broadcast_counter = 0
    /\ storage_counter = 0
    /\ server_connected = FALSE
    /\ storage_cycles = 0
    /\ loop_pc = "off"
    /\ tick_result = "none"
    /\ tick_seen = 0
    /\ tick_storage = "none"
    /\ failed = FALSE
    /\ ticks_since_update = 0
    /\ last_from = 0
    /\ tick_fanout = 0
    /\ tick_emit = "none"

UpdateIdle == delivered = NoEvent

\* The registration loop ran no iteration yet.
NoIteration == [address |-> "none", post |-> "none"]

ConnIdle ==
    /\ boot_pc = "off"
    /\ conn_pc = "idle"
    /\ attempt = 0
    /\ reg_pc = "off"
    /\ server_up = FALSE
    /\ seq_attempts = 0
    /\ seq_outcome = "none"
    /\ boot_outcome = "none"
    /\ iter_found = "none"
    /\ iter_post = NoIteration
    /\ iter_started = 0
    /\ running = 0

InitCheckSpec == InitCheck /\ BatchIdle /\ SchedIdle /\ UpdateIdle /\ ConnIdle
NextCheck ==
    CheckService /\ UNCHANGED <<batch_vars, sched_vars, hist_vars, delivered, conn_vars>>
SpecCheck == InitCheckSpec /\ [][NextCheck]_vars

(***************************************************************************)
(* Claims about check_service (SpecCheck)                                  *)
(***************************************************************************)
Called == verdict # NotCalled
AutoNoFields == arg_config.check_type \in {"auto", Absent} /\ arg_config.keys = {}
FunctionalRan == FunctionalChecks \cap DOMAIN verdict.checks # {}
FunctionalOk == \E k \in FunctionalChecks : Passed(verdict.checks, k)
FunctionalKo == \E k \in FunctionalChecks : Failed(verdict.checks, k)
SomePassed == \E k \in DOMAIN verdict.checks : verdict.checks[k].passed

C2_FunctionalPassIsHealthy ==
    (Called /\ FunctionalOk) => verdict.state = HEALTHY

C2_Witness ==
    /\ Called /\ FunctionalOk
    /\ Failed(verdict.checks, "systemd")
    /\ Failed(verdict.checks, "pm2")
    /\ Failed(verdict.checks, "nodejs_processes")
    /\ ~probe_env.process

\* C3 (as claimed): when a functional probe ran and failed, the state is
\* Degraded if the systemd probe or the process-table probe passed and Down
\* otherwise, for every service name, node and nodejs included.
C3_AsClaimed ==
    (Called /\ FunctionalKo) =>
        verdict.state = IF Passed(verdict.checks, "systemd") \/ Passed(verdict.checks, "process")
                          THEN DEGRADED ELSE DOWN

\* C4: when a functional probe ran and failed and the process-table probe ran
\* and passed, the state is Degraded, whatever systemd returned.
C4_FallbackIsDegraded ==
    (Called /\ FunctionalKo /\ Passed(verdict.checks, "process")) => verdict.state = DEGRADED

C4_Witness ==
    /\ Called /\ FunctionalKo
    /\ Passed(verdict.checks, "process")
    /\ Failed(verdict.checks, "systemd")

\* C5 (as claimed): when no functional probe ran, the state is Healthy if the
\* systemd probe or the process-table probe passed, Down if neither passed and
\* one of them explicitly failed, and Unknown otherwise.
C5_AsClaimed ==
    (Called /\ ~FunctionalRan) =>
        verdict.state =
            IF Passed(verdict.checks, "systemd") \/ Passed(verdict.checks, "process") THEN HEALTHY
            ELSE IF Failed(verdict.checks, "systemd") \/ Failed(verdict.checks, "process") THEN DOWN
            ELSE UNKNOWN


(***************************************************************************)
(* Claims about check_all_services (SpecBatch)                             *)
(***************************************************************************)
InitBatchSpec == HealthIdle /\ InitBatch /\ SchedIdle /\ UpdateIdle /\ ConnIdle
NextBatch ==
    check_all_services /\ UNCHANGED <<health_vars, sched_vars, hist_vars, delivered, conn_vars>>
SpecBatch == InitBatchSpec /\ [][NextBatch]_vars

BatchReturned == batch_pos = Len(service_configs)
Raisers == {i \in DOMAIN batch_env : batch_env[i].raises}
ServiceNames == {service_configs[i].name : i \in DOMAIN service_configs}
Alone(i) == check_service(service_configs[i].name, service_configs[i].config, batch_env[i].env)

\* C6 (as claimed): when exactly one of the N services raises, the batch
\* returns N verdicts, the failing service gets Unknown with the error text as
\* its evidence, and every other service gets the verdict of its own
\* evaluation.
C6_AsClaimed ==
    (BatchReturned /\ Cardinality(Raisers) = 1) =>
        /\ DOMAIN results = ServiceNames
        /\ Cardinality(DOMAIN results) = Len(service_configs)
        /\ \A i \in DOMAIN service_configs :
              results[service_configs[i].name] =
                 IF i \in Raisers
                   THEN [state |-> UNKNOWN,
                         checks |-> ("error" :> [passed |-> FALSE,
                                                 message |-> batch_env[i].text])]
                   ELSE Alone(i)

\* C6 (amended): as claimed, except that the evidence carries the first 100
\* characters of the error text.
C6_OneErrorDoesNotAbort ==
    (BatchReturned /\ Cardinality(Raisers) = 1) =>
        /\ DOMAIN results = ServiceNames
        /\ Cardinality(DOMAIN results) = Len(service_configs)
        /\ \A i \in DOMAIN service_configs :
              results[service_configs[i].name] =
                 IF i \in Raisers
                   THEN [state |-> UNKNOWN,
                         checks |-> ("error" :>
                            [passed |-> FALSE,
                             message |-> SubSeq(batch_env[i].text, 1,
                                                Min(Len(batch_env[i].text), 100))])]
                   ELSE Alone(i)

C6_Witness ==
    /\ BatchReturned
    /\ Len(service_configs) = MaxServices
    /\ Raisers = {1}
    /\ Len(batch_env[1].text) = MsgLimit + 1
    /\ results[service_configs[2].name].state = DEGRADED


(***************************************************************************)
(* The agent once its background tasks are started (Spec)                  *)
(***************************************************************************)
Init == HealthIdle /\ BatchIdle /\ InitSched /\ UpdateIdle /\ ConnIdle

Next ==
    \/ LoopStart /\ UNCHANGED <<health_vars, batch_vars, delivered, conn_vars>>
    \/ Wake /\ UNCHANGED <<health_vars, batch_vars, delivered, conn_vars>>
    \/ FanoutReturns /\ UNCHANGED <<health_vars, batch_vars, delivered, conn_vars>>
    \/ StorageReturns /\ UNCHANGED <<health_vars, batch_vars, delivered, conn_vars>>
    \/ config_update /\ UNCHANGED <<health_vars, batch_vars, delivered, conn_vars>>
    \/ server_config_update /\ UNCHANGED <<health_vars, batch_vars, delivered, conn_vars>>
    \/ connect /\ UNCHANGED <<health_vars, batch_vars, delivered, conn_vars>>
    \/ disconnect /\ UNCHANGED <<health_vars, batch_vars, delivered, conn_vars>>
    \/ connect_error /\ UNCHANGED <<health_vars, batch_vars, delivered, conn_vars>>

Spec == Init /\ [][Next]_vars


(***************************************************************************)
(* Claims about the broadcast loop (Spec)                                  *)
(***************************************************************************)
\* No config_update was accepted and no tick failed so far: the intervals are
\* the configured ones and broadcast_counter is the number of ticks run.
Undisturbed == last_from = 0 /\ ~failed
TickDecided == tick_storage # "none"

\* C7: with a broadcast interval of 1 and a storage interval of 5, no
\* config_update and no failure, the ticks of a run of 20 whose storage emission
\* is attempted are exactly those with tick counter 0, 5, 10 and 15, and each
\* tick advances the counter by one.
C7_StorageEveryFifthTick ==
    (Undisturbed /\ BROADCAST_INTERVAL = 1 /\ STORAGE_INTERVAL = 5
       /\ TickDecided /\ tick_seen < 20) =>
        /\ tick_storage = "attempted" <=> tick_seen \in {0, 5, 10, 15}
        /\ tick_result = "ok" => broadcast_counter = tick_seen + 1

C7_Witness ==
    /\ Undisturbed /\ BROADCAST_INTERVAL = 1 /\ STORAGE_INTERVAL = 5
    /\ loop_pc = "sleep"
    /\ broadcast_counter = 20
    /\ tick_seen = 19
    /\ tick_storage = "skipped"

Max(a, b) == IF a > b THEN a ELSE b
\* round(storage / broadcast), ties to the even neighbour
Round(storage, broadcast) ==
    LET q == storage \div broadcast
        r == storage % broadcast
    IN  IF 2 * r < broadcast THEN q
        ELSE IF 2 * r > broadcast THEN q + 1
        ELSE IF q % 2 = 0 THEN q ELSE q + 1

\* C8 (as claimed): for every pair of positive configured intervals the ratio
\* the loop uses is max(1, round(storage / broadcast)), and a tick attempts a
\* storage emission exactly when its tick counter is a multiple of that ratio.
C8_AsClaimed ==
    (last_from = 0 /\ loop_pc # "start") =>
        /\ storage_cycles = Max(1, Round(STORAGE_INTERVAL, BROADCAST_INTERVAL))
        /\ (TickDecided /\ tick_result \in {"running", "ok"}) =>
              (tick_storage = "attempted" <=>
                 tick_seen % Max(1, Round(STORAGE_INTERVAL, BROADCAST_INTERVAL)) = 0)

\* C9 (as claimed): with a storage interval below the broadcast interval, a
\* tick that published on the fan-out channel does not fail on a division by
\* zero: the ratio is 1, the tick attempts a storage emission and the tick
\* counter advances.
C9_AsClaimed ==
    (last_from = 0 /\ STORAGE_INTERVAL < BROADCAST_INTERVAL
       /\ tick_result \notin {"none", "running", "collect_error", "publish_error"}) =>
        /\ storage_cycles = 1
        /\ tick_result = "ok"
        /\ tick_storage = "attempted"
        /\ broadcast_counter = tick_seen + 1

\* C10 (as claimed): after an accepted config_update that changed the storage
\* interval from 5 to 2 (and reset the tick counter to 0), the first tick that
\* starts after the update attempts a storage emission, wherever the update
\* fell: between two ticks or while a tick was suspended at an await.
C10_AsClaimed ==
    (last_from = 5 /\ STORAGE_INTERVAL = 2 /\ ticks_since_update = 1 /\ tick_result = "ok") =>
        tick_storage = "attempted"

\* C11 (as claimed): after an accepted config_update, every tick that starts
\* after it attempts a storage emission exactly when its tick counter, counted
\* again from 0, is a multiple of max(1, round(storage / broadcast)) of the
\* intervals now in force, not of the ratio in force before the update.
C11_AsClaimed ==
    (last_from # 0 /\ ticks_since_update >= 1 /\ TickDecided
       /\ tick_result \in {"running", "ok"}) =>
        (tick_storage = "attempted" <=>
           tick_seen % Max(1, Round(STORAGE_INTERVAL, BROADCAST_INTERVAL)) = 0)


\* C16: agent:metrics is emitted only while the session flag says connected,
\* and a call of send_to_server_for_storage made while it says disconnected
\* emits nothing, returns normally (the tick ends well and goes to its sleep)
\* and leaves the flag as it was.
C16_EmitOnlyWhileConnected ==
    [][/\ (tick_emit' = "sent" /\ tick_emit # "sent") => server_connected
       /\ (loop_pc' = "storage" /\ loop_pc # "storage") => tick_emit' = "sent"
       /\ (loop_pc = "fanout" /\ tick_storage' = "attempted" /\ ~server_connected) =>
             /\ tick_emit' = "not_sent"
             /\ loop_pc' = "sleep"
             /\ tick_result' = "ok"
             /\ ~server_connected']_vars

C16_Witness ==
    /\ tick_emit = "not_sent"
    /\ tick_storage = "attempted"
    /\ tick_result = "ok"
    /\ loop_pc = "sleep"
    /\ ~server_connected
    /\ tick_seen = 5

\* C17: a tick whose snapshot was assembled calls the fan-out publish exactly
\* once, whatever the session flag, the tick counter and the storage test; a
\* tick whose assembly failed does not publish.
C17_AssembledTickPublishesOnce ==
    /\ tick_result \notin {"none", "collect_error"} => tick_fanout = 1
    /\ tick_result = "collect_error" => tick_fanout = 0

C17_Witness ==
    /\ tick_fanout = 1
    /\ tick_result = "ok"
    /\ tick_storage = "skipped"
    /\ tick_seen = 3
    /\ ~server_connected

\* C18: a tick that failed while assembling or publishing its snapshot leaves
\* the loop suspended at its sleep, from which the next tick can begin, also
\* when the tick before it failed too.
C18_FailedTickKeepsLoopRunning ==
    tick_result \in {"collect_error", "publish_error"} =>
        /\ loop_pc = "sleep"
        /\ broadcast_counter < MaxTicks => ENABLED Wake

\* Two or more ticks started since the last accepted config_update and none of
\* them advanced the counter: the tick just ended and the one before it failed.
C18_Witness ==
    /\ last_from # 0 /\ ticks_since_update = 2 /\ broadcast_counter = 0
    /\ storage_cycles # 0
    /\ tick_result = "publish_error"
    /\ loop_pc = "sleep"

\* C19 (as claimed): a tick met by no config_update ends with the tick counter
\* one above the value it started with, whether its fan-out publish returned
\* or raised and whether its storage emission succeeded, failed or was skipped.
C19_AsClaimed ==
    (loop_pc = "sleep" /\ tick_result \in {"ok", "publish_error"} /\ ticks_since_update >= 1) =>
        broadcast_counter = tick_seen + 1

\* C20 (as claimed): a config_update accepted while a tick is suspended at its
\* fan-out publish or at its storage emit changes neither the tick counter nor
\* the broadcast interval that this tick goes on to read.
C20_AsClaimed ==
    [][(loop_pc \in {"fanout", "storage"} /\ ticks_since_update # 0 /\ ticks_since_update' = 0) =>
          /\ broadcast_counter' = broadcast_counter
          /\ BROADCAST_INTERVAL' = BROADCAST_INTERVAL]_vars

\* C26: send_to_server_for_storage is called only in a tick whose fan-out
\* publish was made and returned: a tick whose publish (or whose assembly)
\* raised calls neither send_to_server_for_storage nor the storage emit.
C26_StorageOnlyAfterPublish ==
    /\ tick_storage = "attempted" => (tick_fanout = 1 /\ tick_result \in {"running", "ok"})
    /\ tick_result \in {"publish_error", "collect_error"} =>
          (tick_storage = "none" /\ tick_emit = "none")

\* The publish of a tick that would have stored its snapshot raised.
C26_Witness ==
    /\ tick_result = "publish_error"
    /\ storage_cycles # 0
    /\ ticks_since_update >= 1
    /\ IsStorageTick(broadcast_counter, storage_cycles)
    /\ server_connected
    /\ tick_storage = "none"
    /\ loop_pc = "sleep"

\* C23: when server_sio.emit raises, the tick does not fail: the session flag
\* is set to disconnected, the tick ends well with the tick counter one higher
\* and goes to its sleep; while the flag says disconnected a later call of
\* send_to_server_for_storage emits nothing, and only a connect event sets the
\* flag again while the loop runs.
C23_EmitErrorDisconnectsOnly ==
    [][/\ (tick_emit = "sent" /\ tick_emit' = "raised") =>
             /\ ~server_connected'
             /\ tick_result' = "ok"
             /\ failed' = failed
             /\ broadcast_counter' = broadcast_counter + 1
             /\ loop_pc' = "sleep"
       /\ (loop_pc = "fanout" /\ tick_storage' = "attempted" /\ ~server_connected) =>
             tick_emit' = "not_sent"
       /\ (~server_connected /\ server_connected') =>
             UNCHANGED <<loop_pc, broadcast_counter, storage_counter, hist_vars>>]_vars

\* The emit raised while the flag still said connected.
C23_Witness ==
    /\ tick_emit = "raised"
    /\ tick_result = "ok"
    /\ ~failed
    /\ ~server_connected
    /\ loop_pc = "sleep"
    /\ broadcast_counter = tick_seen + 1

(***************************************************************************)
(* The config_update handlers met in any state of the globals (SpecUpdate) *)
(***************************************************************************)
\* The counters the handlers are met with go up to MaxCounter.
MaxCounter == 3

InitUpdate ==
    /\ BROADCAST_INTERVAL \in BroadcastIntervals
    /\ STORAGE_INTERVAL \in StorageIntervals
    /\ broadcast_counter \in 0..MaxCounter
    /\ storage_counter \in 0..broadcast_counter
    /\ server_connected \in BOOLEAN
    /\ storage_cycles = 0
    /\ loop_pc = "off"
    /\ tick_result = "none"
    /\ tick_seen = 0
    /\ tick_storage = "none"
    /\ failed = FALSE
    /\ ticks_since_update = 0
    /\ last_from = 0
    /\ tick_fanout = 0
    /\ tick_emit = "none"
    /\ delivered = NoEvent

InitUpdateSpec == HealthIdle /\ BatchIdle /\ InitUpdate /\ ConnIdle

NextUpdate ==
    \/ HandleConfigUpdate("sio") /\ UNCHANGED <<health_vars, batch_vars, conn_vars>>
    \/ HandleConfigUpdate("server_sio") /\ UNCHANGED <<health_vars, batch_vars, conn_vars>>

SpecUpdate == InitUpdateSpec /\ [][NextUpdate]_vars

\* C12: a config_update whose vmId is not this node's, received from a
\* dashboard client or from the server, leaves the broadcast interval, the
\* storage interval, the tick counter and the storage counter as the handler
\* found them.
C12_OtherNodeUpdateIgnored ==
    (delivered # NoEvent /\ ~delivered.data.vmIdMatches) => Globals = delivered.found

C12_Witness ==
    /\ delivered # NoEvent
    /\ delivered.channel = "server_sio"
    /\ ~delivered.data.vmIdMatches
    /\ delivered.data.broadcastInterval = 1
    /\ BROADCAST_INTERVAL = 3
    /\ broadcast_counter = MaxCounter
    /\ storage_counter > 0


(***************************************************************************)
(* Startup, connect_to_server and the registration loop (SpecConn)         *)
(*                                                                         *)
(* boot_pc: "sleep"    await asyncio.sleep(2) of start_background_tasks    *)
(*          "connect"  await connect_to_server()                           *)
(*          "done"     the two background tasks are started                *)
(* conn_pc: "connecting"   await server_sio.connect(DISCOVERY_URL)         *)
(*          "retry_sleep"  await asyncio.sleep(retry_delay)                *)
(* reg_pc:  "start"    the task is scheduled and has not run yet           *)
(*          "connect"  await connect_to_server()                           *)
(*          "sleep"    await asyncio.sleep(30)                             *)
(* requests.post is a blocking call: an iteration of the registration loop *)
(* runs without interleaving up to its first await.                        *)
(***************************************************************************)
\* A mutant of max_retries: one attempt more.
max_retries_plus_one == 3 + 1

max_retries == 3

loop_vars == <<BROADCAST_INTERVAL, STORAGE_INTERVAL, broadcast_counter, storage_counter,
               storage_cycles, loop_pc>>
tick_globals == <<BROADCAST_INTERVAL, STORAGE_INTERVAL, broadcast_counter, storage_counter,
                  storage_cycles>>
iter_vars == <<iter_found, iter_post, iter_started>>

\* connect_to_server is called and runs up to its first await.
StartSequence ==
    /\ conn_pc' = "connecting"
    /\ attempt' = 0
    /\ seq_attempts' = 1
    /\ seq_outcome' = "running"
    /\ running' = running + 1

\* connect_to_server returns and its caller runs up to its next await:
\* start_background_tasks starts the two loops, registration_loop sleeps.
ReturnToCaller(outcome) ==
    /\ conn_pc' = "idle"
    /\ seq_outcome' = outcome
    /\ running' = running - 1
    /\ IF boot_pc = "connect"
         THEN /\ boot_pc' = "done"
              /\ boot_outcome' = outcome
              /\ reg_pc' = "start"
              /\ loop_pc' = "start"
         ELSE /\ reg_pc' = "sleep"
              /\ UNCHANGED <<boot_pc, boot_outcome, loop_pc>>

\* A mutant of start_background_tasks: the two loops are started before
\* connect_to_server is awaited.
start_background_tasks_loops_first ==
    /\ boot_pc = "sleep"
    /\ boot_pc' = "connect"
    /\ StartSequence
    /\ reg_pc' = "start"
    /\ loop_pc' = "start"
    /\ UNCHANGED <<server_connected, server_up, boot_outcome, iter_vars, tick_globals,
                   hist_vars>>

\* The sleep of start_background_tasks returns and connect_to_server is called.
start_background_tasks ==
    /\ boot_pc = "sleep"
    /\ boot_pc' = "connect"
    /\ StartSequence
    /\ UNCHANGED <<server_connected, reg_pc, server_up, boot_outcome, iter_vars, loop_vars,
                   hist_vars>>

\* server_sio.connect returns or raises.
ConnectReturns ==
    /\ conn_pc = "connecting"
    /\ IF server_up
         THEN /\ server_connected' = TRUE
              /\ ReturnToCaller("connected")
              /\ UNCHANGED <<attempt, seq_attempts>>
         ELSE IF attempt < max_retries - 1
           THEN /\ conn_pc' = "retry_sleep"
                /\ UNCHANGED <<server_connected, attempt, seq_attempts, seq_outcome, boot_pc,
                               boot_outcome, reg_pc, running, loop_pc>>
           ELSE /\ server_connected' = FALSE
                /\ ReturnToCaller("exhausted")
                /\ UNCHANGED <<attempt, seq_attempts>>
    /\ UNCHANGED <<server_up, iter_vars, tick_globals, hist_vars>>

\* The sleep between two attempts returns and the next attempt is made.
RetrySleepReturns ==
    /\ conn_pc = "retry_sleep"
    /\ conn_pc' = "connecting"
    /\ attempt' = attempt + 1
    /\ seq_attempts' = seq_attempts + 1
    /\ UNCHANGED <<server_connected, seq_outcome, boot_pc, boot_outcome, reg_pc, server_up,
                   iter_vars, running, loop_vars, hist_vars>>

\* What one iteration meets: the address comes from the UDP socket or from
\* the hostname fallback, or the fallback raises too; the POST answers 200 or
\* another status, or raises.
IterationOutcomes ==
    {[address |-> a, post |-> q] : a \in {"socket", "hostname"}, q \in {"200", "non200", "raises"}}
      \cup {[address |-> "raises", post |-> "not_sent"]}

\* An iteration that raised is in an except branch of the outer try.
Raised(outcome) == outcome.address = "raises" \/ outcome.post = "raises"

\* The iteration reaches 'if not server_connected' at the end of the try block.
ReachesReconnect(outcome) == ~Raised(outcome)

\* A mutant of AfterIterationError: the exception leaves the loop.
AfterIterationErrorStops == "stopped"

\* Where the loop goes from its except branches: to the sleep of 30 s.
AfterIterationError == "sleep"

\* A mutant of registration_loop: connect_to_server is started as a task of
\* its own and not awaited.
registration_loop_detached ==
    /\ reg_pc \in {"start", "sleep"}
    /\ \E outcome \in IterationOutcomes :
          /\ iter_found' = IF server_connected THEN "connected" ELSE "disconnected"
          /\ iter_post' = outcome
          /\ reg_pc' = "sleep"
          /\ IF ReachesReconnect(outcome) /\ ~server_connected
               THEN /\ StartSequence
                    /\ iter_started' = 1
               ELSE /\ iter_started' = 0
                    /\ UNCHANGED <<conn_pc, attempt, seq_attempts, seq_outcome, running>>
    /\ UNCHANGED <<server_connected, boot_pc, boot_outcome, server_up, loop_vars, hist_vars>>

\* One iteration of registration_loop, from the top of the while loop to its
\* first await.
registration_loop ==
    /\ reg_pc \in {"start", "sleep"}
    /\ \E outcome \in IterationOutcomes :
          /\ iter_found' = IF server_connected THEN "connected" ELSE "disconnected"
          /\ iter_post' = outcome
          /\ IF ReachesReconnect(outcome) /\ ~server_connected
               THEN /\ StartSequence
                    /\ reg_pc' = "connect"
                    /\ iter_started' = 1
               ELSE /\ reg_pc' = IF Raised(outcome) THEN AfterIterationError ELSE "sleep"
                    /\ iter_started' = 0
                    /\ UNCHANGED <<conn_pc, attempt, seq_attempts, seq_outcome, running>>
    /\ UNCHANGED <<server_connected, boot_pc, boot_outcome, server_up, loop_vars, hist_vars>>

\* The environment: the server starts or stops accepting connections.
ServerComesUp ==
    /\ ~server_up
    /\ server_up' = TRUE
    /\ UNCHANGED <<sched_vars, hist_vars, boot_pc, conn_pc, attempt, reg_pc, seq_attempts,
                   seq_outcome, boot_outcome, iter_vars, running>>

ServerGoesDown ==
    /\ server_up
    /\ server_up' = FALSE
    /\ UNCHANGED <<sched_vars, hist_vars, boot_pc, conn_pc, attempt, reg_pc, seq_attempts,
                   seq_outcome, boot_outcome, iter_vars, running>>

InitConn ==
    /\ boot_pc = "sleep"
    /\ conn_pc = "idle"
    /\ attempt = 0
    /\ reg_pc = "off"
    /\ server_up \in BOOLEAN
    /\ seq_attempts = 0
    /\ seq_outcome = "none"
    /\ boot_outcome = "none"
    /\ iter_found = "none"
    /\ iter_post = NoIteration
    /\ iter_started = 0
    /\ running = 0

InitConnSpec == HealthIdle /\ BatchIdle /\ SchedIdle /\ UpdateIdle /\ InitConn

other_vars == <<health_vars, batch_vars, delivered>>

NextConn ==
    \/ start_background_tasks /\ UNCHANGED other_vars
    \/ ConnectReturns /\ UNCHANGED other_vars
    \/ RetrySleepReturns /\ UNCHANGED other_vars
    \/ registration_loop /\ UNCHANGED other_vars
    \/ ServerComesUp /\ UNCHANGED other_vars
    \/ ServerGoesDown /\ UNCHANGED other_vars
    \/ LoopStart /\ UNCHANGED <<other_vars, conn_vars>>
    \/ Wake /\ UNCHANGED <<other_vars, conn_vars>>
    \/ FanoutReturns /\ UNCHANGED <<other_vars, conn_vars>>
    \/ StorageReturns /\ UNCHANGED <<other_vars, conn_vars>>
    \/ connect /\ UNCHANGED <<other_vars, conn_vars>>
    \/ disconnect /\ UNCHANGED <<other_vars, conn_vars>>
    \/ connect_error /\ UNCHANGED <<other_vars, conn_vars>>

SpecConn == InitConnSpec /\ [][NextConn]_vars

\* The event loop resumes every coroutine whose sleep or connection attempt
\* has ended; the environment and the connection events are under no
\* obligation.
SpecConnFair ==
    /\ InitConnSpec
    /\ [][NextConn]_vars
    /\ WF_vars(start_background_tasks /\ UNCHANGED other_vars)
    /\ WF_vars(ConnectReturns /\ UNCHANGED other_vars)
    /\ WF_vars(RetrySleepReturns /\ UNCHANGED other_vars)
    /\ WF_vars(registration_loop /\ UNCHANGED other_vars)

(***************************************************************************)
(* Claims about the storage session (SpecConn, SpecConnFair)               *)
(***************************************************************************)
\* C13: one connect_to_server makes at most 3 attempts; an attempt that
\* succeeds ends it with the session flag connected; a failed attempt is
\* followed by the retry sleep while fewer than 3 were made, and the third
\* failure ends it with the flag disconnected; an attempt is made again only
\* once start_background_tasks or an iteration of the registration loop calls
\* connect_to_server anew.
C13_BoundedConnectSequence ==
    [][/\ seq_attempts' <= 3
       /\ (conn_pc = "connecting" /\ conn_pc' # "connecting") =>
             IF server_up
               THEN conn_pc' = "idle" /\ seq_outcome' = "connected" /\ server_connected'
               ELSE IF seq_attempts < 3
                 THEN conn_pc' = "retry_sleep"
                 ELSE conn_pc' = "idle" /\ seq_outcome' = "exhausted" /\ ~server_connected'
       /\ (conn_pc = "idle" /\ conn_pc' # "idle") =>
             /\ seq_attempts' = 1
             /\ \/ boot_pc = "sleep" /\ boot_pc' = "connect"
                \/ reg_pc \in {"start", "sleep"} /\ reg_pc' = "connect"]_vars

\* The startup sequence failed three times; a sequence started by the
\* registration loop succeeded at its second attempt.
C13_Witness ==
    /\ boot_outcome = "exhausted"
    /\ seq_outcome = "connected"
    /\ seq_attempts = 2
    /\ conn_pc = "idle"
    /\ server_connected

\* C14 (as claimed): an iteration of the registration loop that meets the
\* session flag disconnected calls connect_to_server exactly once, whatever
\* address resolution and the POST did (200, another status, an exception);
\* an iteration that meets it connected does not call it.
C14_AsClaimed ==
    /\ iter_found = "disconnected" => iter_started = 1
    /\ iter_found = "connected" => iter_started = 0

\* C15 (as claimed): once the startup sequence is exhausted and connection
\* attempts succeed from then on, the session flag eventually says connected,
\* whatever the POSTs of the registration loop do.
C15_AsClaimed ==
    (<>(boot_outcome = "exhausted") /\ <>[]server_up) =>
        <>(boot_outcome = "exhausted" /\ server_connected)


(***************************************************************************)
(* More claims about check_service (SpecCheck)                             *)
(***************************************************************************)
AutoKind == arg_config.check_type \in {"auto", Absent}
FunctionalRecorded == FunctionalChecks \cap DOMAIN verdict.checks

\* C24: for a configuration of kind auto and every subset of url, port,
\* socket_path, command, the checks of the verdict hold exactly one functional
\* probe, the one of the first present field in the order url, port,
\* socket_path, command, and none when no field is present; no verdict of any
\* kind holds more than one functional probe.
C24_AutoRunsHighestPriorityProbe ==
    Called =>
        /\ Cardinality(FunctionalRecorded) <= 1
        /\ AutoKind =>
              FunctionalRecorded =
                  IF "url" \in arg_config.keys THEN {"http"}
                  ELSE IF "port" \in arg_config.keys THEN {"tcp_port"}
                  ELSE IF "socket_path" \in arg_config.keys THEN {"unix_socket"}
                  ELSE IF "command" \in arg_config.keys THEN {"command"}
                  ELSE {}

C24_Witness ==
    /\ Called /\ AutoKind
    /\ arg_config.keys = ConfigFields
    /\ FunctionalRecorded = {"http"}
    /\ probe_env.fn


(***************************************************************************)
(* More claims about the storage session (SpecConn)                        *)
(***************************************************************************)
\* The session state of the storage client as the agent holds it: the flag,
\* and whether a connect_to_server is in progress.
SessionOf(flag, pc) ==
    IF flag THEN "Connected" ELSE IF pc # "idle" THEN "Connecting" ELSE "Disconnected"

SessionTransitions ==
    {<<"Disconnected", "Connecting">>, <<"Connecting", "Connected">>,
     <<"Connecting", "Disconnected">>, <<"Connected", "Disconnected">>}

\* C21 (as claimed): the session state changes only from Disconnected to
\* Connecting, from Connecting to Connected or Disconnected and from
\* Connected to Disconnected, so it never becomes Connected while no
\* connect_to_server is in progress.  Checked on the runs whose startup
\* sequence connected, where a later connect event is the client's own
\* reconnection.
C21_AsClaimed ==
    [][boot_outcome = "connected" =>
          \/ SessionOf(server_connected', conn_pc') = SessionOf(server_connected, conn_pc)
          \/ <<SessionOf(server_connected, conn_pc), SessionOf(server_connected', conn_pc')>>
                 \in SessionTransitions]_vars

\* C22: an iteration of the registration loop whose POST was answered with
\* another status than 200, or raised, leaves the loop at its sleep of 30 s,
\* from which the next iteration can run, or awaiting the connect_to_server it
\* called, which returns to that sleep.
C22_FailedPostKeepsLoopRunning ==
    iter_post.post \in {"non200", "raises"} =>
        /\ reg_pc \in {"sleep", "connect"}
        /\ reg_pc = "sleep" => ENABLED registration_loop
        /\ reg_pc = "connect" => conn_pc # "idle"

C22_Witness ==
    /\ iter_post.post = "raises"
    /\ iter_found = "disconnected"
    /\ reg_pc = "sleep"
    /\ boot_outcome = "exhausted"

\* C25: at most one connect_to_server is in progress at any time, and one is
\* in progress exactly while conn_pc is not idle.
C25_OneSequenceAtATime ==
    /\ running <= 1
    /\ running = 1 <=> conn_pc # "idle"

\* The registration loop awaits a sequence while a tick is in flight.
C25_Witness ==
    /\ running = 1
    /\ boot_pc = "done"
    /\ reg_pc = "connect"
    /\ conn_pc = "retry_sleep"
    /\ loop_pc = "fanout"

\* C27: while start_background_tasks sleeps or awaits the startup
\* connect_to_server, neither loop is started, no snapshot was published and no
\* registration was made; the loops are started by the step that ends that
\* sequence, with the flag connected or after 3 failed attempts.
C27_LoopsStartAfterStartupSequence ==
    [][/\ boot_pc' \in {"sleep", "connect"} =>
             /\ reg_pc' = "off" /\ loop_pc' = "off"
             /\ iter_post' = NoIteration
             /\ tick_result' = "none" /\ tick_fanout' = 0
       /\ (reg_pc = "off" /\ loop_pc = "off" /\ (reg_pc' # "off" \/ loop_pc' # "off")) =>
             /\ reg_pc' = "start" /\ loop_pc' = "start"
             /\ conn_pc' = "idle"
             /\ boot_outcome' = IF server_connected' THEN "connected" ELSE "exhausted"
             /\ server_connected' \/ seq_attempts' = 3]_vars

\* Both loops ran after a startup sequence that was exhausted.
C27_Witness ==
    /\ boot_pc = "done"
    /\ boot_outcome = "exhausted"
    /\ seq_attempts = 3
    /\ tick_fanout = 1
    /\ iter_post # NoIteration

====
